---- MODULE Spec2Model ----
(***************************************************************************)
(* Model of src/src/solver.cu (torchSODE): the host entry point solve_cuda, *)
(* the three lane kernels it can launch, and the two integration rules.     *)
(*                                                                          *)
(* Scalars.  The model is the scalar_t = float instantiation.  A value is   *)
(* <<m, e>>, standing for m * 2^e, with m odd (zero is <<0, 0>>).  Every    *)
(* float operation is the exact result rounded to Precision significant     *)
(* bits, ties to even.  Overflow, underflow, infinities and NaN are outside *)
(* the inputs the model draws.                                              *)
(*                                                                          *)
(* Threads.  A kernel launch starts blocks * threadsPerBlock threads that   *)
(* interleave freely; a thread that fails its kernel's guard does nothing.  *)
(* solve_cuda returns without synchronising, so Return interleaves with the *)
(* lanes; a call is over once the host returned and every lane exited.      *)
(***************************************************************************)
EXTENDS Integers, Sequences, FiniteSets, TLC

VARIABLES name, F, x0, g, dt, steps,
          hpc, d_chosen_method, kernel, launches, blocks,
          lane, touched, x0init

vars == <<name, F, x0, g, dt, steps, hpc, d_chosen_method, kernel, launches,
          blocks, lane, touched, x0init>>

inputs == <<name, F, g, dt, steps, x0init>>

----------------------------------------------------------------------------
(* Bounds of the model.                                                     *)

\* Longest state vector of the kernel specification.
MaxN == 4
\* Largest step count of the kernel specification.
MaxSteps == 2
\* Longest vector and largest matrix dimension of the dispatch specification.
MaxShape == 3
\* Most lanes of the exponential-decay scenario.
MaxDecayLanes == 2

----------------------------------------------------------------------------
(* scalar_t = float: 24 significant bits.                                   *)

Precision == 24

threadsPerBlock == 512

Abs(n) == IF n < 0 THEN -n ELSE n

Sign(n) == IF n < 0 THEN -1 ELSE 1

Min(a, b) == IF a <= b THEN a ELSE b

RECURSIVE BitLen(_)
BitLen(n) == IF n = 0 THEN 0 ELSE 1 + BitLen(n \div 2)

RECURSIVE Norm(_, _)
Norm(m, e) ==
    IF m = 0 THEN <<0, 0>>
    ELSE IF m % 2 = 0 THEN Norm(m \div 2, e + 1)
    ELSE <<m, e>>

Zero == <<0, 0>>

\* The integer n, and n / 2, as values.
Whole(n) == Norm(n, 0)
Halves(n) == Norm(n, -1)

\* The exact sum and product of two values (no rounding).
ExactAdd(a, b) ==
    IF a[1] = 0 THEN b
    ELSE IF b[1] = 0 THEN a
    ELSE LET e == Min(a[2], b[2])
         IN  Norm(a[1] * 2^(a[2] - e) + b[1] * 2^(b[2] - e), e)

ExactMul(a, b) == Norm(a[1] * b[1], a[2] + b[2])

\* v rounded to a float: the nearest value with Precision significant bits,
\* a tie going to the even significand.
RoundF32(v) ==
    LET a == Abs(v[1])
        k == BitLen(a) - Precision
    IN  IF k <= 0 THEN v
        ELSE LET q == a \div 2^k
                 r == a % 2^k
                 h == 2^(k - 1)
                 up == r > h \/ (r = h /\ q % 2 = 1)
             IN  Norm(Sign(v[1]) * (IF up THEN q + 1 ELSE q), v[2] + k)

\* b cut to the t-th bit above its last one, the bits cut off kept as one
\* sticky bit: it rounds as b does in any sum that drops two bits or more.
Sticky(b, t) ==
    LET a == Abs(b[1])
        q == IF t + 1 >= BitLen(a) THEN 0 ELSE a \div 2^(t + 1)
    IN  <<Sign(b[1]) * (2 * q + 1), b[2] + t>>

\* float + float.  The operands are aligned on the smaller exponent; when
\* the gap is wider than the integers allow, the operand of smaller
\* exponent (at most 2^-5 of the other) is first cut to the bits that can
\* reach the rounding.
FAdd(a, b) ==
    IF a[1] = 0 THEN b
    ELSE IF b[1] = 0 THEN a
    ELSE LET hi == IF a[2] >= b[2] THEN a ELSE b
             lo == IF a[2] >= b[2] THEN b ELSE a
             gap == hi[2] - lo[2]
             room == 30 - BitLen(Abs(hi[1]))
         IN  IF gap <= room THEN RoundF32(ExactAdd(hi, lo))
             ELSE RoundF32(ExactAdd(hi, Sticky(lo, gap - room)))

\* float * float.
FMul(a, b) == RoundF32(ExactMul(a, b))

\* double + double and double * double.  A double holds 53 significant
\* bits, more than any significand the model's integers can hold, so on the
\* model's values these operations are exact.
DAdd(a, b) == ExactAdd(a, b)
DMul(a, b) == ExactMul(a, b)

\* v / 2.0 and 2.0 * v: exact in binary.
Half(v) == IF v[1] = 0 THEN Zero ELSE <<v[1], v[2] - 1>>
Twice(v) == IF v[1] = 0 THEN Zero ELSE <<v[1], v[2] + 1>>

\* The double v / 6.0 converted to float (the return of rk4_method).  v / 6
\* is (m / 3) * 2^(e - 1); when 3 does not divide m the quotient's binary
\* expansion alternates, so it is never a tie and rounding it first to a
\* double does not change the float it converts to.
Div6ToFloat(v) ==
    IF v[1] % 3 = 0 THEN RoundF32(Norm(v[1] \div 3, v[2] - 1))
    ELSE LET a == Abs(v[1])
             k == (Precision + 2) - BitLen(a)
             q == (a * 2^k) \div 3
             r == (a * 2^k) % 3
             \* the quotient, and two more bits standing for the fraction
             \* 1/3 (01) or 2/3 (11) that is left
             t == IF r = 1 THEN 1 ELSE 3
         IN  RoundF32(<<Sign(v[1]) * (4 * q + t), v[2] - 1 - k - 2>>)

\* a <= b on values.
Leq(a, b) ==
    LET e == Min(a[2], b[2])
    IN  a[1] * 2^(a[2] - e) <= b[1] * 2^(b[2] - e)

----------------------------------------------------------------------------
(* Integration rules.                                                       *)

\* The rule reading its state argument: F * (x + g) * dt.
euler_method_uses_x(F_in, x0_in, g_in, dt_) ==
    FMul(FMul(F_in, FAdd(x0_in, g_in)), dt_)

euler_method(F_in, x0_in, g_in, dt_) == FMul(FMul(F_in, g_in), dt_)

\* f1 and dt * f1 are float operations; from "/ 2.0" on the operands are
\* promoted to double, and the quotient by 6.0 is returned as a float.
rk4_method(F_in, x0_in, g_in, dt_) ==
    LET f1 == FMul(FMul(F_in, g_in), dt_)
        c2 == Half(FMul(dt_, f1))
        f2 == DMul(DMul(F_in, DAdd(g_in, c2)), Half(dt_))
        c3 == Half(DMul(dt_, f2))
        f3 == DMul(DMul(F_in, DAdd(g_in, c3)), Half(dt_))
        c4 == DMul(dt_, f3)
        f4 == DMul(DMul(F_in, DAdd(g_in, c4)), dt_)
    IN  Div6ToFloat(DAdd(DAdd(DAdd(f1, Twice(f2)), Twice(f3)), f4))

\* h_methods[name]: std::map::operator[] inserts an empty std::function for
\* a name that was never registered.
h_methods(nm) ==
    CASE nm = "Euler" -> "euler_method"
      [] nm = "RK4" -> "rk4_method"
      [] OTHER -> "empty"

\* method(F_in, x0_in, g_in, dt) through the chosen handle.
method(m, F_in, x0_in, g_in, dt_) ==
    IF m = "rk4_method" THEN rk4_method(F_in, x0_in, g_in, dt_)
    ELSE euler_method(F_in, x0_in, g_in, dt_)

\* What an out-of-bounds read, or a call through an empty handle, may yield.
Junk == {Whole(5), Halves(-7)}

----------------------------------------------------------------------------
(* Tensors: x0 and g are functions on 0 .. size - 1; F is a record of its   *)
(* two sizes and its entries.                                               *)

Size(v) == Cardinality(DOMAIN v)

x0_size == Size(x0)

F_size == F.rows

\* g_a[idx] and F_a[r][c]: the accessors check no bounds.
g_a(idx) == IF idx \in DOMAIN g THEN {g[idx]} ELSE Junk

F_a(r, c) == IF r < F.rows /\ c < F.cols THEN {F.a[r, c]} ELSE Junk

----------------------------------------------------------------------------
(* Lane kernels.                                                            *)

NoLane == [pc |-> "ready", i |-> 0, x1 |-> Zero, x2 |-> Zero,
           g1 |-> Zero, g2 |-> Zero, Fv |-> <<>>]

Touch(t, idx, tid) == [t EXCEPT ![idx] = @ \cup {tid}]

\* The loop with an inclusive bound.
LoopCond_inclusive(i, n) == i <= n

\* for (int i = 0; i < steps; i++)
LoopCond(i, n) == i < n

\* if (tid < x0_size)
LaneGuard(tid, n) == tid < n

\* if (tid < x0_size / 2)
SkewGuard(tid, n) == tid < n \div 2

\* The neighbouring slot instead of the slot half a vector away.
Partner_next(tid, n) == tid + 1

\* tid + x0_size / 2
Partner(tid, n) == tid + n \div 2

\* The loop body assigning the increment instead of adding it.
solver_iteration_no_accumulate(m, x0_in, g_in, F_in, dt_) ==
    method(m, F_in, x0_in, g_in, dt_)

\* x0_in = x0_in + method(F_in, x0_in, g_in, dt);
solver_iteration(m, x0_in, g_in, F_in, dt_) ==
    FAdd(x0_in, method(m, F_in, x0_in, g_in, dt_))

\* The second assignment starting from the first state as it was before
\* the step.
skew_iteration_prestep_x1(m, x1, x2, g1, g2, Fv, dt_) ==
    LET n1 == FAdd(FAdd(x1, method(m, Fv[1], x1, g1, dt_)),
                   method(m, Fv[2], x2, g2, dt_))
        n2 == FAdd(FAdd(x1, method(m, Fv[3], x1, g1, dt_)),
                   method(m, Fv[4], x2, g2, dt_))
    IN  <<n1, n2>>

\* The second assignment starting from the second state.
skew_iteration_own_x2(m, x1, x2, g1, g2, Fv, dt_) ==
    LET n1 == FAdd(FAdd(x1, method(m, Fv[1], x1, g1, dt_)),
                   method(m, Fv[2], x2, g2, dt_))
        n2 == FAdd(FAdd(x2, method(m, Fv[3], n1, g1, dt_)),
                   method(m, Fv[4], x2, g2, dt_))
    IN  <<n1, n2>>

\* x0_in_1 = x0_in_1 + method(UL_v, x0_in_1, g_in_1, dt) + method(UR_v, x0_in_2, g_in_2, dt);
\* x0_in_2 = x0_in_1 + method(LL_v, x0_in_1, g_in_1, dt) + method(LR_v, x0_in_2, g_in_2, dt);
skew_iteration(m, x1, x2, g1, g2, Fv, dt_) ==
    LET n1 == FAdd(FAdd(x1, method(m, Fv[1], x1, g1, dt_)),
                   method(m, Fv[2], x2, g2, dt_))
        n2 == FAdd(FAdd(n1, method(m, Fv[3], n1, g1, dt_)),
                   method(m, Fv[4], x2, g2, dt_))
    IN  <<n1, n2>>

\* The whole loop of a General or Compact-Diagonal lane: n passes from x.
RECURSIVE LaneLoop(_, _, _, _, _, _)
LaneLoop(m, x, g_in, F_in, dt_, n) ==
    IF n = 0 THEN x
    ELSE LaneLoop(m, solver_iteration(m, x, g_in, F_in, dt_), g_in, F_in, dt_,
                  n - 1)

\* The whole loop of a Compact Block lane: n passes from the pair <<x1, x2>>.
RECURSIVE SkewLoop(_, _, _, _, _, _, _, _)
SkewLoop(m, x1, x2, g1, g2, Fv, dt_, n) ==
    IF n = 0 THEN <<x1, x2>>
    ELSE LET p == skew_iteration(m, x1, x2, g1, g2, Fv, dt_)
         IN  SkewLoop(m, p[1], p[2], g1, g2, Fv, dt_, n - 1)

\* One pass of the loop body.  A call through an empty handle is undefined:
\* the variables it assigns may hold anything.
IterationOutcomes(m, x0_in, g_in, F_in, dt_) ==
    IF m = "empty" THEN Junk ELSE {solver_iteration(m, x0_in, g_in, F_in, dt_)}

SkewOutcomes(m, x1, x2, g1, g2, Fv, dt_) ==
    IF m = "empty" THEN Junk \X Junk
    ELSE {skew_iteration(m, x1, x2, g1, g2, Fv, dt_)}

Launched(k, tid) ==
    /\ kernel = k
    /\ tid < blocks * threadsPerBlock

GeneralRead(tid) ==
    /\ Launched("general_solver", tid)
    /\ LaneGuard(tid, x0_size)
    /\ lane[tid].pc = "ready"
    /\ \E gv \in g_a(tid), fv \in F_a(tid, tid) :
          lane' = [lane EXCEPT ![tid] =
                     [@ EXCEPT !.pc = "loop", !.x1 = x0[tid], !.g1 = gv,
                               !.Fv = <<fv>>]]
    /\ touched' = Touch(touched, tid, tid)
    /\ UNCHANGED <<inputs, x0, hpc, d_chosen_method, kernel, launches, blocks>>

DiagonalRead(tid) ==
    /\ Launched("compact_diagonal_solver", tid)
    /\ LaneGuard(tid, x0_size)
    /\ lane[tid].pc = "ready"
    /\ \E gv \in g_a(tid), fv \in F_a(0, 0) :
          lane' = [lane EXCEPT ![tid] =
                     [@ EXCEPT !.pc = "loop", !.x1 = x0[tid], !.g1 = gv,
                               !.Fv = <<fv>>]]
    /\ touched' = Touch(touched, tid, tid)
    /\ UNCHANGED <<inputs, x0, hpc, d_chosen_method, kernel, launches, blocks>>

\* The loop and the write-back are the same text in both kernels.
LaneStep(k, tid) ==
    /\ Launched(k, tid)
    /\ LaneGuard(tid, x0_size)
    /\ lane[tid].pc = "loop"
    /\ LoopCond(lane[tid].i, steps)
    /\ \E nx \in IterationOutcomes(d_chosen_method, lane[tid].x1, lane[tid].g1,
                                   lane[tid].Fv[1], dt) :
          lane' = [lane EXCEPT ![tid] = [@ EXCEPT !.i = @ + 1, !.x1 = nx]]
    /\ UNCHANGED <<inputs, x0, hpc, d_chosen_method, kernel, launches, blocks,
                   touched>>

LaneWrite(k, tid) ==
    /\ Launched(k, tid)
    /\ LaneGuard(tid, x0_size)
    /\ lane[tid].pc = "loop"
    /\ ~LoopCond(lane[tid].i, steps)
    /\ x0' = [x0 EXCEPT ![tid] = lane[tid].x1]
    /\ lane' = [lane EXCEPT ![tid].pc = "exit"]
    /\ touched' = Touch(touched, tid, tid)
    /\ UNCHANGED <<inputs, hpc, d_chosen_method, kernel, launches, blocks>>



SkewRead(tid) ==
    /\ Launched("compact_skew_symmetric_solver", tid)
    /\ SkewGuard(tid, x0_size)
    /\ lane[tid].pc = "ready"
    /\ \E gv1 \in g_a(tid), gv2 \in g_a(Partner(tid, x0_size)),
          UL_v \in F_a(0, 0), UR_v \in F_a(0, 1),
          LL_v \in F_a(1, 0), LR_v \in F_a(1, 1) :
          lane' = [lane EXCEPT ![tid] =
                     [@ EXCEPT !.pc = "loop", !.g1 = gv1, !.g2 = gv2,
                               !.x1 = x0[tid],
                               !.x2 = x0[Partner(tid, x0_size)],
                               !.Fv = <<UL_v, UR_v, LL_v, LR_v>>]]
    /\ touched' = Touch(Touch(touched, tid, tid), Partner(tid, x0_size), tid)
    /\ UNCHANGED <<inputs, x0, hpc, d_chosen_method, kernel, launches, blocks>>

SkewStep(tid) ==
    /\ Launched("compact_skew_symmetric_solver", tid)
    /\ SkewGuard(tid, x0_size)
    /\ lane[tid].pc = "loop"
    /\ LoopCond(lane[tid].i, steps)
    /\ \E p \in SkewOutcomes(d_chosen_method, lane[tid].x1, lane[tid].x2,
                             lane[tid].g1, lane[tid].g2, lane[tid].Fv, dt) :
          lane' = [lane EXCEPT ![tid] =
                     [@ EXCEPT !.i = @ + 1, !.x1 = p[1], !.x2 = p[2]]]
    /\ UNCHANGED <<inputs, x0, hpc, d_chosen_method, kernel, launches, blocks,
                   touched>>

SkewWrite(tid) ==
    /\ Launched("compact_skew_symmetric_solver", tid)
    /\ SkewGuard(tid, x0_size)
    /\ lane[tid].pc = "loop"
    /\ ~LoopCond(lane[tid].i, steps)
    /\ x0' = [x0 EXCEPT ![tid] = lane[tid].x1,
                        ![Partner(tid, x0_size)] = lane[tid].x2]
    /\ lane' = [lane EXCEPT ![tid].pc = "exit"]
    /\ touched' = Touch(Touch(touched, tid, tid), Partner(tid, x0_size), tid)
    /\ UNCHANGED <<inputs, hpc, d_chosen_method, kernel, launches, blocks>>


----------------------------------------------------------------------------
(* solve_cuda.                                                              *)

\* The switch with its case 2 missing.
KernelFor_no_case_2(n) ==
    CASE n = 1 -> "compact_diagonal_solver"
      [] OTHER -> "general_solver"

\* switch (F_size)
KernelFor(n) ==
    CASE n = 1 -> "compact_diagonal_solver"
      [] n = 2 -> "compact_skew_symmetric_solver"
      [] OTHER -> "general_solver"

\* (x0_size + threadsPerBlock - 1) / threadsPerBlock
Blocks(n) == (n + threadsPerBlock - 1) \div threadsPerBlock

Resolve ==
    /\ hpc = "entry"
    /\ d_chosen_method' = h_methods(name)
    /\ hpc' = "resolved"
    /\ UNCHANGED <<inputs, x0, kernel, launches, blocks, lane, touched>>

Launch ==
    /\ hpc = "resolved"
    /\ blocks' = Blocks(x0_size)
    /\ kernel' = KernelFor(F_size)
    /\ launches' = launches + 1
    /\ hpc' = "launched"
    /\ UNCHANGED <<inputs, x0, d_chosen_method, lane, touched>>

Return ==
    /\ hpc = "launched"
    /\ hpc' = "returned"
    /\ UNCHANGED <<inputs, x0, d_chosen_method, kernel, launches, blocks, lane,
                   touched>>

Next ==
    \/ Resolve
    \/ Launch
    \/ Return
    \/ \E tid \in DOMAIN lane : GeneralRead(tid)
    \/ \E tid \in DOMAIN lane : LaneStep("general_solver", tid)
    \/ \E tid \in DOMAIN lane : LaneWrite("general_solver", tid)
    \/ \E tid \in DOMAIN lane : DiagonalRead(tid)
    \/ \E tid \in DOMAIN lane : LaneStep("compact_diagonal_solver", tid)
    \/ \E tid \in DOMAIN lane : LaneWrite("compact_diagonal_solver", tid)
    \/ \E tid \in DOMAIN lane : SkewRead(tid)
    \/ \E tid \in DOMAIN lane : SkewStep(tid)
    \/ \E tid \in DOMAIN lane : SkewWrite(tid)

----------------------------------------------------------------------------
(* Inputs.  A vector is given by its length and the rule for its elements;  *)
(* a matrix by its shape and the rule for its entries.                      *)

Max(a, b) == IF a >= b THEN a ELSE b

Vec(n, gen) == [i \in 0 .. n - 1 |-> CASE gen = "zero" -> Zero
                                       [] gen = "one" -> Whole(1)
                                       [] gen = "ramp" -> Whole(i + 1)
                                       [] gen = "big" -> Whole(2^Precision + 2 * i)]

\* "distinct": every entry differs (1 2 / 3 4 for a 2 x 2 block);
\* "exchange": UL = LR = 0, UR = LL = 1; "scalar": (3/2) I; "decay": -I.
Mat(R, C, gen) ==
    [rows |-> R, cols |-> C,
     a |-> [r \in 0 .. R - 1, c \in 0 .. C - 1 |->
              CASE gen = "distinct" -> Whole(1 + 2 * r + c)
                [] gen = "exchange" -> IF r = c THEN Zero ELSE Whole(1)
                [] gen = "scalar" -> IF r = c THEN Halves(3) ELSE Zero
                [] gen = "decay" -> IF r = c THEN Whole(-1) ELSE Zero]]

\* The state at the entry of solve_cuda(F, x0, g, dt, steps, name).
Call(Fm, xv, gv, d, s, nm) ==
    /\ name = nm
    /\ F = Fm
    /\ x0 = xv
    /\ x0init = xv
    /\ g = gv
    /\ dt = d
    /\ steps = s
    /\ hpc = "entry"
    /\ d_chosen_method = "unset"
    /\ kernel = "none"
    /\ launches = 0
    /\ blocks = 0
    /\ lane = [tid \in DOMAIN xv |-> NoLane]
    /\ touched = [idx \in DOMAIN xv |-> {}]

\* Any method name, any shapes (matching or not), one step at most.
Init ==
    \E nm \in {"Euler", "RK4", "Heun"}, n \in 0 .. MaxShape,
       ng \in 0 .. MaxShape + 1, R \in 0 .. MaxShape, C \in 1 .. MaxShape,
       s \in 0 .. 1 :
       /\ ng \in {n - 1, n, n + 1}
       /\ Call(Mat(R, C, "distinct"), Vec(n, "ramp"), Vec(ng, "ramp"),
               Whole(1), s, nm)

Spec == Init /\ [][Next]_vars

\* Inputs on which every read is in bounds and the method is registered:
\* each kernel with a matrix of its own shape.  The exchange block and the
\* zero forcing go to the Compact Block kernel only.
InitKernel ==
    \E nm \in {"Euler", "RK4"}, n \in 1 .. MaxN, R \in 1 .. Max(MaxN, 3),
       fgen \in {"distinct", "exchange", "scalar"}, xgen \in {"ramp", "big"},
       ggen \in {"zero", "ramp"}, d \in {Whole(1), Halves(1)},
       s \in 0 .. MaxSteps :
       /\ R \in {1, 2, Max(n, 3)}
       /\ (fgen = "exchange" \/ ggen = "zero") => R = 2
       /\ Call(Mat(R, R, fgen), Vec(n, xgen), Vec(n, ggen), d, s, nm)

SpecKernel == InitKernel /\ [][Next]_vars

\* 0.01 as a float: 5368709 * 2^-29.
DtDecay == <<5368709, -29>>

\* The exponential-decay scenario: F = -I, g = 1, x0 = 0, Euler,
\* dt = 0.01, steps = 100, under each kernel.
InitDecay ==
    \E n \in 1 .. MaxDecayLanes, R \in {1, 2, 3} :
       Call(Mat(R, R, "decay"), Vec(n, "zero"), Vec(n, "one"), DtDecay,
            100, "Euler")

SpecDecay == InitDecay /\ [][Next]_vars

----------------------------------------------------------------------------
(* Vocabulary of the properties.                                            *)

Registered == {"Euler", "RK4"}

N == Size(x0init)

\* The lanes that pass their kernel's guard.
Active(tid) ==
    /\ tid < blocks * threadsPerBlock
    /\ IF kernel = "compact_skew_symmetric_solver" THEN tid < N \div 2
       ELSE tid < N

\* The call is over: the host returned and every working lane wrote back.
Done ==
    /\ hpc = "returned"
    /\ \A tid \in DOMAIN lane : Active(tid) => lane[tid].pc = "exit"

\* The coupling value of lane i: F[0][0] or F[i][i].
Coupling(i) ==
    IF kernel = "compact_diagonal_solver" THEN F.a[0, 0] ELSE F.a[i, i]

\* The increment of one step of lane i, computed with the state argument x.
Increment(i, x) == method(d_chosen_method, Coupling(i), x, g[i], dt)

\* x + d + ... + d, n additions, each one a float addition.
RECURSIVE IterAdd(_, _, _)
IterAdd(x, d, n) == IF n = 0 THEN x ELSE IterAdd(FAdd(x, d), d, n - 1)

\* a + b is a float as it stands: the addition does not round.
AddIsExact(a, b) ==
    \/ a[1] = 0
    \/ b[1] = 0
    \/ LET hi == IF a[2] >= b[2] THEN a ELSE b
           lo == IF a[2] >= b[2] THEN b ELSE a
       IN  /\ hi[2] - lo[2] <= 30 - BitLen(Abs(hi[1]))
           /\ RoundF32(ExactAdd(hi, lo)) = ExactAdd(hi, lo)

\* None of the n additions x + d + ... + d rounds.
RECURSIVE ChainIsExact(_, _, _)
ChainIsExact(x, d, n) ==
    \/ n = 0
    \/ AddIsExact(x, d) /\ ChainIsExact(FAdd(x, d), d, n - 1)

----------------------------------------------------------------------------
(* Properties.                                                              *)

\* C1: a call with a method name that is neither "Euler" nor "RK4" fails
\* before any kernel is launched (it never launches, never returns x0) and
\* leaves every element of x0 as it was.
C1_UnknownMethodFailsBeforeLaunch ==
    name \notin Registered =>
        /\ launches = 0
        /\ hpc \notin {"launched", "returned"}
        /\ x0 = x0init

\* The shapes the specification rejects: lengths of x0 and g differ, a
\* 2-row F with odd N, a General-case F with fewer than N rows or columns.
ShapeMismatch ==
    \/ Size(g) # N
    \/ F.rows = 2 /\ N % 2 = 1
    \/ F.rows \notin {1, 2} /\ (F.rows < N \/ F.cols < N)

\* C2: a call with mismatched shapes fails before any kernel is launched
\* and changes no element of x0.
C2_ShapeMismatchFailsBeforeLaunch ==
    ShapeMismatch =>
        /\ launches = 0
        /\ hpc \notin {"launched", "returned"}
        /\ x0 = x0init

\* C3: the kernel is chosen from the number of rows of F alone: 1 runs the
\* Compact-Diagonal kernel, 2 the Compact Block kernel, anything else (0 and
\* 3 or more included) the General kernel; one kernel is launched per call,
\* and the lanes that run are lanes of that kernel.
C3_KernelByLeadingDimension ==
    LET chosen == IF F.rows = 1 THEN "compact_diagonal_solver"
                  ELSE IF F.rows = 2 THEN "compact_skew_symmetric_solver"
                  ELSE "general_solver"
    IN  /\ launches <= 1
        /\ kernel # "none" <=> launches = 1
        /\ hpc \in {"launched", "returned"} => launches = 1 /\ kernel = chosen
        /\ \A tid \in DOMAIN lane :
              lane[tid].pc # "ready" =>
                  /\ kernel = chosen
                  /\ Len(lane[tid].Fv) = IF F.rows = 2 THEN 4 ELSE 1

\* C3's case: a call whose F has no rows ran the General kernel to its end.
C3_Witness ==
    /\ F.rows = 0
    /\ N = 2
    /\ Done
    /\ kernel = "general_solver"
    /\ \A tid \in DOMAIN lane : lane[tid].pc = "exit"

\* C4: with steps = 0 every element of x0 keeps its value, under each of
\* the three kernels, at every point of the call.
C4_ZeroStepsIdentity == steps = 0 => x0 = x0init

\* C4's case: a zero-step call of the Compact Block kernel on four elements
\* is over, both lanes having written back.
C4_Witness ==
    /\ steps = 0
    /\ kernel = "compact_skew_symmetric_solver"
    /\ N = 4
    /\ Done
    /\ lane[0].pc = "exit" /\ lane[1].pc = "exit"
    /\ g[0] # Zero

\* The lanes that may touch x0[idx]: lane idx in the General and
\* Compact-Diagonal kernels; in the Compact Block kernel lane idx for the
\* first half and lane idx - N/2 for the second.
Owners(idx) ==
    IF kernel = "compact_skew_symmetric_solver"
    THEN IF idx < N \div 2 THEN {idx} ELSE {idx - N \div 2}
    ELSE {idx}

\* The Compact Block coefficients <<UL, UR, LL, LR>>.
Block == <<F.a[0, 0], F.a[0, 1], F.a[1, 0], F.a[1, 1]>>

\* What lane order 0, 1, 2, ... leaves in x0[idx].
Sequential(idx) ==
    IF kernel = "compact_skew_symmetric_solver"
    THEN LET h == N \div 2
             i == IF idx < h THEN idx ELSE idx - h
             p == SkewLoop(d_chosen_method, x0init[i], x0init[i + h],
                           g[i], g[i + h], Block, dt, steps)
         IN  IF idx < h THEN p[1] ELSE IF idx < 2 * h THEN p[2]
             ELSE x0init[idx]
    ELSE LaneLoop(d_chosen_method, x0init[idx], g[idx], Coupling(idx), dt,
                  steps)

\* C5: no index of x0 is read or written by two lanes: lane i touches only
\* x0[i] (General, Compact-Diagonal) or only x0[i] and x0[i + N/2] (Compact
\* Block, N even); so the final x0 is one function of the inputs, the same
\* under every interleaving of the lanes.
C5_ExclusiveSlots ==
    (kernel = "compact_skew_symmetric_solver" => N % 2 = 0) =>
        /\ \A idx \in DOMAIN touched :
              /\ touched[idx] \subseteq Owners(idx)
              /\ Cardinality(touched[idx]) <= 1
        /\ Done => \A idx \in DOMAIN x0 : x0[idx] = Sequential(idx)

\* C5's case: two Compact Block lanes ran two steps each on four elements,
\* and each touched its own pair.
C5_Witness ==
    /\ kernel = "compact_skew_symmetric_solver"
    /\ N = 4
    /\ steps = 2
    /\ Done
    /\ touched = (0 :> {0} @@ 1 :> {1} @@ 2 :> {0} @@ 3 :> {1})
    /\ x0 # x0init

\* F is c * I: the coupling reduces to the one scalar c = F[0][0].
ScalarCoupling ==
    /\ F.rows >= 1
    /\ F.cols >= 1
    /\ \A r \in 0 .. F.rows - 1, c \in 0 .. F.cols - 1 :
          F.a[r, c] = IF r = c THEN F.a[0, 0] ELSE Zero

\* The scalar recurrence x <- x + rule(c, x, g, dt), n times from x.
RECURSIVE ScalarFinal(_, _)
ScalarFinal(x, n) ==
    IF n = 0 THEN x
    ELSE LET y == ScalarFinal(x, n - 1)
         IN  FAdd(y, method(d_chosen_method, F.a[0, 0], y, g[0], dt))

RECURSIVE ClaimedPair(_, _)
ClaimedPair(i, n) ==
    IF n = 0 THEN <<x0init[i], x0init[i + N \div 2]>>
    ELSE LET m == d_chosen_method
             g1 == g[i]
             g2 == g[i + N \div 2]
             x1 == ClaimedPair(i, n - 1)[1]
             x2 == ClaimedPair(i, n - 1)[2]
             x1n == FAdd(FAdd(x1, method(m, F.a[0, 0], x1, g1, dt)),
                         method(m, F.a[0, 1], x2, g2, dt))
             x2n == FAdd(FAdd(x1n, method(m, F.a[1, 0], x1n, g1, dt)),
                         method(m, F.a[1, 1], x2, g2, dt))
         IN  <<x1n, x2n>>

\* C8: in the Compact Block kernel with N even, x0[i] and x0[i + N/2] end
\* as the pair this recurrence gives after `steps` steps, the second line
\* using the updated x1' and the x2 from before the step.
C8_BlockRecurrence ==
    (Done /\ kernel = "compact_skew_symmetric_solver" /\ N % 2 = 0) =>
        \A i \in 0 .. N \div 2 - 1 :
            <<x0[i], x0[i + N \div 2]>> = ClaimedPair(i, steps)

\* C8's case: two steps of the Compact Block kernel on four elements with
\* four different coefficients and a forcing that is not zero.
C8_Witness ==
    /\ Done
    /\ kernel = "compact_skew_symmetric_solver"
    /\ N = 4
    /\ steps = 2
    /\ Cardinality({Block[k] : k \in 1 .. 4}) = 4
    /\ g[0] # Zero
    /\ x0[0] # x0init[0]
    /\ x0[2] # x0init[2]

\* Other initial values of a second-half element.
OtherSecondHalf == {Zero, Whole(7), Halves(-3)}

\* C9: in the Compact Block kernel with N even and steps >= 1 the final
\* x0[i] and x0[i + N/2] do not depend on the initial second half: the call
\* ends as it would from any other initial x0[i + N/2]; with g = 0 both end
\* equal to the initial x0[i].
C9_SecondHalfIgnored ==
    (Done /\ kernel = "compact_skew_symmetric_solver" /\ N % 2 = 0
          /\ steps >= 1) =>
        \A i \in 0 .. N \div 2 - 1 :
            /\ \A v \in OtherSecondHalf :
                  <<x0[i], x0[i + N \div 2]>> =
                      SkewLoop(d_chosen_method, x0init[i], v, g[i],
                               g[i + N \div 2], Block, dt, steps)
            /\ (\A k \in DOMAIN g : g[k] = Zero) =>
                  x0[i] = x0init[i] /\ x0[i + N \div 2] = x0init[i]

\* C9's case: a Compact Block call on four elements with a forcing and a
\* coupling that are not zero, whose second half started from other values
\* than the first.
C9_Witness ==
    /\ Done
    /\ kernel = "compact_skew_symmetric_solver"
    /\ N = 4
    /\ steps >= 1
    /\ g[0] # Zero
    /\ Block[2] # Zero
    /\ x0init[2] # x0init[0]
    /\ x0init[2] \notin OtherSecondHalf
    /\ x0[2] # x0init[2]

\* y is the exact sum a + b.  When the operands lie too far apart to be
\* aligned, the sum has more than Precision significant bits and is no
\* float.
SumIs(a, b, y) ==
    IF a[1] = 0 THEN y = b
    ELSE IF b[1] = 0 THEN y = a
    ELSE LET hi == IF a[2] >= b[2] THEN a ELSE b
             lo == IF a[2] >= b[2] THEN b ELSE a
         IN  /\ hi[2] - lo[2] <= 30 - BitLen(Abs(hi[1]))
             /\ y = ExactAdd(hi, lo)

\* C10 as stated: in the General and Compact-Diagonal kernels the final
\* x0[i] equals the initial x0[i] plus steps times rule(F_value, g[i], dt),
\* whether the right-hand side is read as exact or as float arithmetic.
C10_StepsTimesIncrement ==
    (Done /\ kernel \in {"general_solver", "compact_diagonal_solver"}) =>
        \A i \in DOMAIN x0 :
            LET d == Increment(i, x0init[i])
            IN  \/ SumIs(x0init[i], ExactMul(Whole(steps), d), x0[i])
                \/ x0[i] = FAdd(x0init[i], FMul(Whole(steps), d))

\* State arguments to try the rules on.
OtherStates == {Zero, Whole(7), Halves(-3)}

\* C10 amended: the rules do not use their state argument, so every step
\* adds the same increment d = rule(F_value, g[i], dt): the final x0[i] is
\* the initial x0[i] with d added `steps` times, each addition rounded to a
\* float; it is the initial x0[i] plus steps times d when no addition
\* rounds.
C10_SameIncrementEveryStep ==
    (Done /\ kernel \in {"general_solver", "compact_diagonal_solver"}) =>
        \A i \in DOMAIN x0 : \A x \in OtherStates :
            LET d == Increment(i, x)
            IN  /\ x0[i] = IterAdd(x0init[i], d, steps)
                /\ ChainIsExact(x0init[i], d, steps) =>
                      SumIs(x0init[i], ExactMul(Whole(steps), d), x0[i])

\* C10's case: two Euler steps of increment 1 from x0[0] = 2^24 are over;
\* each addition rounded back to 2^24.
C10_Witness ==
    /\ Done
    /\ kernel = "compact_diagonal_solver"
    /\ name = "Euler"
    /\ steps = 2
    /\ x0init[0] = Whole(2^Precision)
    /\ Increment(0, Zero) = Whole(1)
    /\ lane[0].pc = "exit"
    /\ x0[0] = Whole(2^Precision)

\* C7: in the exponential-decay scenario (Compact-Diagonal kernel,
\* F[0][0] = -1, g = 1, x0 = 0, Euler, dt = 0.01, steps = 100) every final
\* x0[i] approximates 1 - 1/e = 0.632...: it lies within 1/2 .. 3/4, a band
\* of more than ten times dt around it.
C7_DecayApproximation ==
    (Done /\ kernel = "compact_diagonal_solver") =>
        \A i \in DOMAIN x0 :
            Leq(Halves(1), x0[i]) /\ Leq(x0[i], Norm(3, -2))

====
